---- MODULE Spec2Model ----
(***************************************************************************)
(* Nested-set plugin (src/nestedSet.ts): the record store, rebuildTree,    *)
(* the pre('save') and pre('remove') middleware and the relationship       *)
(* queries, as a state machine over a small collection of documents.       *)
(***************************************************************************)
EXTENDS Integers, Sequences, FiniteSets, TLC

\* ------------------------------------------------------------------ bounds
MaxInit == 4
MaxNodes == 6
MaxLeft == 2
MaxRebuilds == 2
MaxOps == 4
MaxHooks == 2
MaxMixed == 1
MaxFail == 2
MaxGroups == 2
MaxGroupOps == 1
MaxForest == 3

\* ------------------------------------------------------------- data model
Ids == 1..MaxNodes
\* a missing parentReference (falsy in `if (self[parentFieldName])`)
NoId == 0
\* a document field that was never assigned (undefined)
Unset == 0 - 1
\* the value of the grouping field of a document that was given none
NoGroup == 0

\* groupingKey: whether the plugin was given the groupingKey option
VARIABLES store, stack, build, nextId, hooks, last, groupingKey

vars == <<store, stack, build, nextId, hooks, last, groupingKey>>

\* a slot of the collection that holds no document
Absent == [exists |-> FALSE, parent |-> NoId, lft |-> Unset, rgt |-> Unset,
           lvl |-> 0, group |-> NoGroup]

\* a freshly constructed document: lft/rgt undefined, lvl defaults to 0
NewDoc(p) == [exists |-> TRUE, parent |-> p, lft |-> Unset, rgt |-> Unset,
              lvl |-> 0, group |-> NoGroup]

\* JavaScript truthiness of a numeric field: undefined and 0 are falsy
Truthy(v) == v # Unset /\ v # 0

\* a numeric field is present (the $gt/$lt operators never match a missing field)
IsSet(v) == v # Unset

Stored(s) == {n \in Ids : s[n].exists}

\* ------------------------------------------------------------ collections
RECURSIVE SortedSeq(_)
SortedSeq(S) ==
  IF S = {} THEN <<>>
  ELSE LET m == CHOOSE x \in S : \A y \in S : x <= y
       IN <<m>> \o SortedSeq(S \ {m})

RECURSIVE SeqMax(_, _)
\* nodes.forEach(node => if (node.rgt > maxRgt) maxRgt = node.rgt), from acc
SeqMax(vals, acc) ==
  IF vals = <<>> THEN acc
  ELSE SeqMax(Tail(vals), IF Head(vals) > acc THEN Head(vals) ELSE acc)

\* find({parentReference: id}): the documents whose parent is id
ChildrenOf(s, id) == {c \in Stored(s) : s[c].parent = id}

\* the same, in the store's iteration (insertion) order
ChildrenSeq(s, id) == SortedSeq(ChildrenOf(s, id))

\* the nodes reached from n by following parentReference (fuel k bounds the walk)
RECURSIVE Chain(_, _, _)
Chain(s, n, k) ==
  IF k = 0 \/ s[n].parent = NoId \/ ~s[s[n].parent].exists THEN {}
  ELSE {s[n].parent} \cup Chain(s, s[n].parent, k - 1)

ParentChain(s, n) == Chain(s, n, MaxNodes)

\* the nodes whose parentReference chain passes through n
DescendantsByParent(s, n) == {d \in Stored(s) : n \in ParentChain(s, d)}

SubtreeOf(s, root) == {root} \cup DescendantsByParent(s, root)

\* variant: the update carries no _id and is applied to every document
UpdateOneAny(s, id, l, r) ==
  [n \in Ids |-> IF s[n].exists THEN [s[n] EXCEPT !.lft = l, !.rgt = r]
                 ELSE s[n]]

\* updateOne({_id: id}, {lft, rgt}): no document matched, nothing written
UpdateOne(s, id, l, r) ==
  IF id \in Ids /\ s[id].exists
  THEN [s EXCEPT ![id].lft = l, ![id].rgt = r]
  ELSE s

\* ------------------------------------------------------------ rebuildTree
\* one activation of rebuildTree(parent, left): parent.lft, parent.rgt and
\* the children still to be visited by forEachSeries
\* variant: the activation starts one past the left boundary it was given
FrameShifted(s, id, left) ==
  LET kids == ChildrenSeq(s, id)
  IN [id |-> id, lft |-> left + 1, rgt |-> left + 2, todo |-> kids,
      pc |-> IF kids = <<>> THEN "leafwrite" ELSE "iter"]

\* variant: a right boundary that is already stored is kept as the start
FrameStored(s, id, left) ==
  LET kids == ChildrenSeq(s, id)
  IN [id |-> id, lft |-> left,
      rgt |-> IF id \in Ids /\ IsSet(s[id].rgt) THEN s[id].rgt ELSE left + 1,
      todo |-> kids, pc |-> IF kids = <<>> THEN "leafwrite" ELSE "iter"]

Frame(s, id, left) ==
  LET kids == ChildrenSeq(s, id)
  IN [id |-> id, lft |-> left, rgt |-> left + 1, todo |-> kids,
      pc |-> IF kids = <<>> THEN "leafwrite" ELSE "iter"]

Top == stack[Len(stack)]

Pop == SubSeq(stack, 1, Len(stack) - 1)

\* the callback passed to the recursive call: parent.rgt = item.rgt + 1,
\* then updateOne on the parent is issued
\* variant: the callback forgets the + 1
ReturnedSame(stk, itemRgt) ==
  IF stk = <<>> THEN stk
  ELSE [stk EXCEPT ![Len(stk)].rgt = itemRgt, ![Len(stk)].pc = "cbwrite"]

Returned(stk, itemRgt) ==
  IF stk = <<>> THEN stk
  ELSE [stk EXCEPT ![Len(stk)].rgt = itemRgt + 1, ![Len(stk)].pc = "cbwrite"]

\* the outermost activation resolved: rebuildTree is complete.  clean records
\* that the collection is now exactly the tree rebuildTree(1, 1) numbered,
\* first what the first completed rebuildTree was called with and produced
Finished(stk, s) ==
  IF stk = <<>>
  THEN [build EXCEPT !.state = "done",
                     !.clean = build.pure /\ build.root = 1 /\ build.left = 1
                               /\ Stored(s) = SubtreeOf(s, 1),
                     !.first = IF @.set THEN @
                               ELSE [set |-> TRUE, root |-> build.root,
                                     left |-> build.left, result |-> s]]
  ELSE build

\* `if (!children)`: find resolves to an array of documents, which is truthy
\* also when it is empty
NotFound(kids) == kids \notin Seq(Ids)

\* rebuildTree(root, left) is called with a document whose id is root; the
\* collection is not asked whether it holds that document
RebuildStart(root, left) ==
  /\ stack = <<>>
  /\ build.count < MaxRebuilds
  /\ LET f == Frame(store, root, left)
     IN /\ stack' = IF NotFound(f.todo) THEN <<>> ELSE <<f>>
        /\ build' = [root |-> root, left |-> left,
                     state |-> IF NotFound(f.todo) THEN "failed" ELSE "run",
                     count |-> build.count + 1, pre |-> store,
                     pure |-> TRUE, clean |-> FALSE, first |-> build.first]
  /\ last' = [last EXCEPT !.op = "rebuild"]
  /\ UNCHANGED <<groupingKey, store, nextId, hooks>>

\* forEachSeries hands the next child to rebuildTree(item, parent.rgt)
RebuildChild ==
  /\ stack # <<>>
  /\ Top.pc = "iter"
  /\ Len(stack) < MaxNodes + 1
  /\ stack' = Append(stack, Frame(store, Head(Top.todo), Top.rgt))
  /\ last' = [last EXCEPT !.op = "rebuild"]
  /\ UNCHANGED <<groupingKey, store, build, nextId, hooks>>

\* a node without children persists its own lft/rgt and calls back
RebuildUpdateLeaf ==
  /\ stack # <<>>
  /\ Top.pc = "leafwrite"
  /\ store' = UpdateOne(store, Top.id, Top.lft, Top.rgt)
  /\ stack' = Returned(Pop, Top.rgt)
  /\ build' = Finished(Pop, store')
  /\ last' = [last EXCEPT !.op = "rebuild"]
  /\ UNCHANGED <<groupingKey, nextId, hooks>>

\* the updateOne of the parent after one child; forEachSeries then moves on
\* or, after the last child, completes and calls back
RebuildUpdateParent ==
  /\ stack # <<>>
  /\ Top.pc = "cbwrite"
  /\ store' = UpdateOne(store, Top.id, Top.lft, Top.rgt)
  /\ IF Tail(Top.todo) # <<>>
     THEN /\ stack' = [stack EXCEPT ![Len(stack)].todo = Tail(Top.todo),
                                    ![Len(stack)].pc = "iter"]
          /\ UNCHANGED build
     ELSE /\ stack' = Returned(Pop, Top.rgt)
          /\ build' = Finished(Pop, store')
  /\ last' = [last EXCEPT !.op = "rebuild"]
  /\ UNCHANGED <<groupingKey, nextId, hooks>>

\* ------------------------------------------------- relationship queries
\* parent(): findOne({_id: self.parentReference}); Absent stands for null
FindParent(s, p) == IF p \in Ids /\ s[p].exists THEN s[p] ELSE Absent

\* siblings(): find({parentReference: self.parentReference, _id: {$ne: self._id}})
SiblingsOf(s, id, p) == SortedSeq({c \in Stored(s) : s[c].parent = p /\ c # id})

\* ancestors(): find({lft: {$lt: self.lft}, rgt: {$gt: self.rgt}})
Ancestors(s, n) ==
  {m \in Stored(s) : /\ IsSet(s[m].lft) /\ s[m].lft < s[n].lft
                     /\ IsSet(s[m].rgt) /\ s[m].rgt > s[n].rgt}

\* descendants(): find({lft: {$gt: self.lft}, rgt: {$lt: self.rgt}})
Descendants(s, n) ==
  {m \in Stored(s) : /\ IsSet(s[m].lft) /\ s[m].lft > s[n].lft
                     /\ IsSet(s[m].rgt) /\ s[m].rgt < s[n].rgt}

\* selfAndAncestors(): find({lft: {$lte: self.lft}, rgt: {$gte: self.rgt}})
SelfAndAncestors(s, n) ==
  {m \in Stored(s) : /\ IsSet(s[m].lft) /\ s[m].lft <= s[n].lft
                     /\ IsSet(s[m].rgt) /\ s[m].rgt >= s[n].rgt}

\* selfAndDescendants(): find({lft: {$gte: self.lft}, rgt: {$lte: self.rgt}})
SelfAndDescendants(s, n) ==
  {m \in Stored(s) : /\ IsSet(s[m].lft) /\ s[m].lft >= s[n].lft
                     /\ IsSet(s[m].rgt) /\ s[m].rgt <= s[n].rgt}

\* variant: the first comparison is not strict
IsDescendantOfOrSelf(s, a, b) ==
  /\ IsSet(s[a].lft) /\ IsSet(s[b].lft) /\ IsSet(s[b].rgt)
  /\ s[b].lft <= s[a].lft /\ s[a].lft < s[b].rgt

\* a.isDescendantOf(b): other.lft < self.lft && self.lft < other.rgt (a
\* comparison with undefined is false)
IsDescendantOf(s, a, b) ==
  /\ IsSet(s[a].lft) /\ IsSet(s[b].lft) /\ IsSet(s[b].rgt)
  /\ s[b].lft < s[a].lft /\ s[a].lft < s[b].rgt

\* a.isAncestorOf(b): self.lft < other.lft && other.lft < self.rgt
IsAncestorOf(s, a, b) ==
  /\ IsSet(s[a].lft) /\ IsSet(s[a].rgt) /\ IsSet(s[b].lft)
  /\ s[a].lft < s[b].lft /\ s[b].lft < s[a].rgt

\* level(): the number of documents ancestors() returns
Level(s, n) == Cardinality(Ancestors(s, n))

\* isLeaf(): this.lft && this.rgt && (this.rgt - this.lft === 1), as a truth
\* value
IsLeaf(s, n) ==
  Truthy(s[n].lft) /\ Truthy(s[n].rgt) /\ s[n].rgt - s[n].lft = 1

\* ------------------------------------------- pre('save') and pre('remove')
\* parentNode && parentNode.lft && parentNode.rgt
ParentBuilt(pn) == pn.exists /\ Truthy(pn.lft) /\ Truthy(pn.rgt)

\* variant: the siblings are not examined
SiblingsIgnored(s, sibs) == TRUE

\* nodes.every(node => node.lft && node.rgt)
SiblingsBuilt(s, sibs) ==
  \A i \in 1..Len(sibs) : Truthy(s[sibs[i]].lft) /\ Truthy(s[sibs[i]].rgt)

\* variant: the first sibling is taken instead of the maximum
MaxRgtFirst(s, sibs, plft) ==
  IF Len(sibs) = 0 THEN plft ELSE s[sibs[1]].rgt

\* the largest rgt among the siblings, from 0; the parent's lft when there are none
MaxRgt(s, sibs, plft) ==
  IF Len(sibs) = 0 THEN plft
  ELSE SeqMax([i \in 1..Len(sibs) |-> s[sibs[i]].rgt], 0)

\* variant: the lft pass is missing
IncLftNone(s, m, d) == s

\* updateMany({lft: {$gt: m}}, {$inc: {lft: d}})
IncLft(s, m, d) ==
  [n \in Ids |-> IF s[n].exists /\ IsSet(s[n].lft) /\ s[n].lft > m
                 THEN [s[n] EXCEPT !.lft = @ + d] ELSE s[n]]

\* variant: the rgt pass is missing
IncRgtNone(s, m, d) == s

\* updateMany({rgt: {$gt: m}}, {$inc: {rgt: d}})
IncRgt(s, m, d) ==
  [n \in Ids |-> IF s[n].exists /\ IsSet(s[n].rgt) /\ s[n].rgt > m
                 THEN [s[n] EXCEPT !.rgt = @ + d] ELSE s[n]]

\* variant: pre('remove') increments like pre('save')
DeltaUp(kind) == 2

\* $inc: 2 in pre('save'), $inc: -2 in pre('remove')
Delta(kind) == IF kind = "save" THEN 2 ELSE 0 - 2

\* the store calls a middleware makes, by the step that issues them
Calls == {"parent", "siblings", "lft", "rgt"}

\* variant: the range updates leave self out
UpdateConditionsNotSelf(s, h) ==
  IF groupingKey THEN {n \in Ids \ {h.id} : s[n].group = h.group}
  ELSE Ids \ {h.id}

\* variant: the conditions are left as they are
UpdateConditionsAll(s, h) == Ids

\* updateConditions(conditions, self): with the groupingKey option the range
\* update only matches documents whose grouping field equals self's
UpdateConditions(s, h) ==
  IF groupingKey THEN {n \in Ids : s[n].group = h.group} ELSE Ids

\* an updateMany whose conditions carry the extra term: documents outside S
\* keep what they had
Matching(s, updated, S) == [n \in Ids |-> IF n \in S THEN updated[n] ELSE s[n]]

\* a running middleware: the document `self` (id, parent, group, lft, rgt,
\* lvl; isNew and the values it was loaded with), what the callbacks captured
\* (plft = parentNode.lft, maxRgt), where it is, which of its store calls is
\* going to fail (fail), the store calls issued so far and how it ended
StartSave(p, id) ==
  [kind |-> "save", id |-> id, parent |-> p, group |-> NoGroup,
   lft |-> Unset, rgt |-> Unset, lvl |-> 0, isNew |-> TRUE,
   was |-> [lft |-> Unset, rgt |-> Unset, lvl |-> 0],
   plft |-> Unset, maxRgt |-> Unset, acted |-> FALSE,
   fail |-> "none", issued |-> {}, outcome |-> "pending",
   pc |-> IF p = NoId THEN "commit" ELSE "parent"]

StartRemove(s, id) ==
  [kind |-> "remove", id |-> id, parent |-> s[id].parent,
   group |-> s[id].group, lft |-> s[id].lft, rgt |-> s[id].rgt,
   lvl |-> s[id].lvl, isNew |-> FALSE,
   was |-> [lft |-> s[id].lft, rgt |-> s[id].rgt, lvl |-> s[id].lvl],
   plft |-> Unset, maxRgt |-> Unset, acted |-> FALSE,
   fail |-> "none", issued |-> {}, outcome |-> "pending",
   pc |-> IF s[id].parent = NoId THEN "commit" ELSE "parent"]

\* save() of a document that was loaded from the collection
StartResave(s, id) == [StartRemove(s, id) EXCEPT !.kind = "save"]

\* the store call of the current step has been issued
Issue(h) == [h EXCEPT !.issued = @ \cup {h.pc}]

\* self.parent(callback): `!err && parentNode && parentNode.lft &&
\* parentNode.rgt`; otherwise next()
AfterParent(s, h) ==
  LET pn == FindParent(s, h.parent)
  IN IF h.fail # "parent" /\ ParentBuilt(pn)
     THEN [h EXCEPT !.lvl = IF h.kind = "save" THEN pn.lvl + 1 ELSE @,
                    !.plft = pn.lft, !.pc = "siblings"]
     ELSE [h EXCEPT !.pc = "commit"]

\* self.siblings(callback): err is not looked at; after a failed read nodes
\* is undefined and nodes.every throws, so next is never called.  Otherwise
\* maxRgt is computed; a sibling without lft and rgt means next()
AfterSiblings(s, h) ==
  LET sibs == SiblingsOf(s, h.id, h.parent)
  IN IF h.fail = "siblings"
     THEN [h EXCEPT !.pc = "threw", !.outcome = "threw"]
     ELSE IF SiblingsBuilt(s, sibs)
          THEN [h EXCEPT !.maxRgt = MaxRgt(s, sibs, h.plft), !.pc = "lft"]
          ELSE [h EXCEPT !.pc = "commit"]

\* the callback of the second updateMany (err is not looked at): pre('save')
\* assigns self.lft and self.rgt; both call next()
AfterRgt(h) ==
  IF h.kind = "save"
  THEN [h EXCEPT !.lft = h.maxRgt + 1, !.rgt = h.maxRgt + 2,
                 !.acted = TRUE, !.pc = "commit"]
  ELSE [h EXCEPT !.acted = TRUE, !.pc = "commit"]

\* after next(): save inserts a new document and, for a loaded one, writes
\* the fields whose value differs from the loaded one; remove deletes it
Committed(s, h) ==
  IF h.kind = "save"
  THEN IF h.isNew
       THEN [s EXCEPT ![h.id] = [exists |-> TRUE, parent |-> h.parent,
                                 lft |-> h.lft, rgt |-> h.rgt, lvl |-> h.lvl,
                                 group |-> h.group]]
       ELSE [s EXCEPT ![h.id].lft = IF h.lft # h.was.lft THEN h.lft ELSE @,
                      ![h.id].rgt = IF h.rgt # h.was.rgt THEN h.rgt ELSE @,
                      ![h.id].lvl = IF h.lvl # h.was.lvl THEN h.lvl ELSE @]
  ELSE [s EXCEPT ![h.id] = Absent]

\* one step of a middleware: what it does to itself and to the store.  The
\* callback of the first updateMany issues the second whatever err is; next()
\* is always called without an error, so the save or remove goes ahead
StepHook(s, h) ==
  CASE h.pc = "parent" -> AfterParent(s, Issue(h))
    [] h.pc = "siblings" -> AfterSiblings(s, Issue(h))
    [] h.pc = "lft" -> [Issue(h) EXCEPT !.pc = "rgt"]
    [] h.pc = "rgt" -> AfterRgt(Issue(h))
    [] h.pc = "commit" -> [h EXCEPT !.pc = "done", !.outcome = "ok"]
    [] OTHER -> h

\* a failed updateMany leaves the collection as it was
StepStore(s, h) ==
  CASE h.pc = "lft" /\ h.fail # "lft" ->
         Matching(s, IncLft(s, h.maxRgt, Delta(h.kind)), UpdateConditions(s, h))
    [] h.pc = "rgt" /\ h.fail # "rgt" ->
         Matching(s, IncRgt(s, h.maxRgt, Delta(h.kind)), UpdateConditions(s, h))
    [] h.pc = "commit" -> Committed(s, h)
    [] OTHER -> s

\* the middleware and the save/remove it guards, run without interruption
RECURSIVE Run(_, _)
Run(s, h) ==
  IF h.pc \in {"done", "threw"} THEN [store |-> s, hook |-> h]
  ELSE Run(StepStore(s, h), StepHook(s, h))

\* what the last operation was, on what, and the collection before it
Record(op, r, cleanBefore) ==
  [op |-> op, node |-> r.hook.id, parent |-> r.hook.parent,
   group |-> r.hook.group,
   maxRgt |-> r.hook.maxRgt, acted |-> r.hook.acted, pre |-> store,
   lft |-> r.hook.lft, rgt |-> r.hook.rgt, lvl |-> r.hook.lvl,
   fail |-> r.hook.fail, issued |-> r.hook.issued,
   outcome |-> r.hook.outcome,
   prevOp |-> last.op, prevNode |-> last.node, prevPre |-> last.pre,
   preClean |-> cleanBefore, count |-> last.count + 1]

\* new Model({parentReference: p, [groupingKey]: g}).save(), during which the
\* store call f fails (f = "none": no store call fails)
Save(p, g, f) ==
  /\ hooks = <<>>
  /\ nextId <= MaxNodes
  /\ last.count < MaxOps
  /\ LET r == Run(store, [StartSave(p, nextId) EXCEPT !.group = g, !.fail = f])
     IN /\ store' = r.store
        /\ last' = Record("create", r, build.clean)
  /\ nextId' = nextId + 1
  /\ build' = [build EXCEPT !.pure = FALSE,
                            !.clean = build.clean /\ p # NoId /\ f = "none"]
  /\ UNCHANGED <<groupingKey, stack, hooks>>

\* new Model({parentReference: p}).save()
Create(p) == Save(p, NoGroup, "none")

\* doc.remove() of a stored document, during which the store call f fails
RemoveDoc(n, f) ==
  /\ hooks = <<>>
  /\ store[n].exists
  /\ last.count < MaxOps
  /\ LET r == Run(store, [StartRemove(store, n) EXCEPT !.fail = f])
     IN /\ store' = r.store
        /\ last' = Record("remove", r, build.clean)
  /\ build' = [build EXCEPT !.pure = FALSE, !.clean = FALSE]
  /\ UNCHANGED <<groupingKey, stack, nextId, hooks>>

\* doc.remove() of a stored document
Remove(n) == RemoveDoc(n, "none")

\* doc.save() of a document that is already stored, nothing changed on it
Resave(n) ==
  /\ hooks = <<>>
  /\ store[n].exists
  /\ last.count < MaxOps
  /\ LET r == Run(store, StartResave(store, n))
     IN /\ store' = r.store
        /\ last' = Record("resave", r, build.clean)
  /\ build' = [build EXCEPT !.pure = FALSE, !.clean = FALSE]
  /\ UNCHANGED <<groupingKey, stack, nextId, hooks>>

\* ---------------------------- the middleware step by step, interleavable
\* save() is called: `if (self[parentFieldName])` runs at once
SaveStart(p) ==
  /\ Len(hooks) < MaxHooks
  /\ nextId <= MaxNodes
  /\ hooks' = Append(hooks, StartSave(p, nextId))
  /\ nextId' = nextId + 1
  /\ UNCHANGED <<groupingKey, store, stack, build, last>>

\* remove() is called on a loaded document
RemoveStart(n) ==
  /\ Len(hooks) < MaxHooks
  /\ store[n].exists
  /\ \A i \in 1..Len(hooks) : hooks[i].id # n
  /\ hooks' = Append(hooks, StartRemove(store, n))
  /\ UNCHANGED <<groupingKey, store, stack, build, nextId, last>>

HookStep(i, pc) ==
  /\ hooks[i].pc = pc
  /\ store' = StepStore(store, hooks[i])
  /\ hooks' = [hooks EXCEPT ![i] = StepHook(store, hooks[i])]
  /\ UNCHANGED <<groupingKey, stack, build, nextId, last>>

ReadParent(i) == HookStep(i, "parent")

ReadSiblings(i) == HookStep(i, "siblings")

ShiftLft(i) == HookStep(i, "lft")

ShiftRgt(i) == HookStep(i, "rgt")

Commit(i) == HookStep(i, "commit")

\* ------------------------------------------------------------------- Init
\* documents saved one after the other before any boundaries exist: every
\* pre('save') finds its parent without lft/rgt and assigns nothing
IsShape(n, p) ==
  /\ p[1] = NoId
  /\ \A i \in 2..n : p[i] \in 1..(i - 1)

InitStore(n, p) ==
  [i \in Ids |-> IF i <= n THEN NewDoc(p[i]) ELSE Absent]

\* no rebuildTree has been called yet
NoBuild ==
  [root |-> NoId, left |-> 0, state |-> "idle", count |-> 0, pre |-> store,
   pure |-> TRUE, clean |-> FALSE,
   first |-> [set |-> FALSE, root |-> NoId, left |-> 0, result |-> store]]

NoOp == [op |-> "none", node |-> NoId, parent |-> NoId, group |-> NoGroup,
         maxRgt |-> Unset, acted |-> FALSE, pre |-> store, lft |-> Unset,
         rgt |-> Unset, lvl |-> 0, fail |-> "none", issued |-> {},
         outcome |-> "pending", prevOp |-> "none", prevNode |-> NoId,
         prevPre |-> store, preClean |-> FALSE, count |-> 0]

Init ==
  /\ \E n \in 1..MaxInit : \E p \in [1..n -> 0..(n - 1)] :
       /\ IsShape(n, p)
       /\ store = InitStore(n, p)
       /\ nextId = n + 1
  /\ stack = <<>>
  /\ build = NoBuild
  /\ hooks = <<>>
  /\ last = NoOp
  /\ groupingKey = FALSE

\* ------------------------------------------------- rebuildTree on its own
NextBuild ==
  \/ \E root \in Stored(store) : \E left \in 0..MaxLeft : RebuildStart(root, left)
  \/ RebuildChild
  \/ RebuildUpdateLeaf
  \/ RebuildUpdateParent

SpecBuild == Init /\ [][NextBuild]_vars

\* ----------------- rebuildTree(root, 1), then saves of new children, atomic
BuildTree ==
  \/ (build.count = 0 /\ RebuildStart(1, 1))
  \/ RebuildChild
  \/ RebuildUpdateLeaf
  \/ RebuildUpdateParent

NextCreate ==
  \/ BuildTree
  \/ (build.state = "done" /\ \E p \in Stored(store) : Create(p))

SpecCreate == Init /\ [][NextCreate]_vars

\* ------------ rebuildTree(root, 1), then atomic saves and removes of nodes
NextRemove ==
  \/ BuildTree
  \/ (build.state = "done" /\ \E p \in Stored(store) : Create(p))
  \/ (build.state = "done" /\ \E n \in Stored(store) : Remove(n))

SpecRemove == Init /\ [][NextRemove]_vars

\* ---- rebuildTree at any time, atomic saves (with or without a parent) and
\* removes at any time, also between the store calls of a running rebuild
Next ==
  \/ (build.count = 0 /\ \E root \in Stored(store) : \E left \in 0..1 : RebuildStart(root, left))
  \/ RebuildChild
  \/ RebuildUpdateLeaf
  \/ RebuildUpdateParent
  \/ (last.count < MaxMixed /\ \E p \in Stored(store) \cup {NoId} : Create(p))
  \/ (last.count < MaxMixed /\ \E n \in Stored(store) : Remove(n))

Spec == Init /\ [][Next]_vars

\* ------- rebuildTree(root, 1), then up to MaxHooks middleware runs whose
\* store calls interleave freely
NextRace ==
  \/ BuildTree
  \/ (build.state = "done" /\ \E p \in Stored(store) : SaveStart(p))
  \/ (build.state = "done" /\ \E n \in Stored(store) : RemoveStart(n))
  \/ \E i \in 1..Len(hooks) : ReadParent(i)
  \/ \E i \in 1..Len(hooks) : ReadSiblings(i)
  \/ \E i \in 1..Len(hooks) : ShiftLft(i)
  \/ \E i \in 1..Len(hooks) : ShiftRgt(i)
  \/ \E i \in 1..Len(hooks) : Commit(i)

SpecRace == Init /\ [][NextRace]_vars

\* ------- rebuildTree(root, 1), then atomic saves and removes during which
\* one store call of the middleware may fail
NextFail ==
  \/ BuildTree
  \/ (build.state = "done" /\ last.count < MaxFail
      /\ \E p \in Stored(store) : \E f \in Calls \cup {"none"} :
           Save(p, NoGroup, f))
  \/ (build.state = "done" /\ last.count < MaxFail
      /\ \E n \in Stored(store) : \E f \in Calls \cup {"none"} :
           RemoveDoc(n, f))

SpecFail == Init /\ [][NextFail]_vars

\* ------- rebuildTree called with any id on documents whose parentReference
\* is any id: their own, one that leads back to them, one of no document
InitAny ==
  /\ \E n \in 1..MaxInit : \E p \in [1..n -> 0..(n + 1)] :
       /\ store = InitStore(n, p)
       /\ nextId = n + 1
  /\ stack = <<>>
  /\ build = NoBuild
  /\ hooks = <<>>
  /\ last = NoOp
  /\ groupingKey = FALSE

NextAny ==
  \/ (build.count = 0 /\ \E root \in Ids : \E left \in 0..1 : RebuildStart(root, left))
  \/ RebuildChild
  \/ RebuildUpdateLeaf
  \/ RebuildUpdateParent

SpecAny == InitAny /\ [][NextAny]_vars

\* ------- the plugin with the groupingKey option: a forest whose trees carry
\* a grouping value each, rebuildTree(root, 1) once on some of its roots,
\* then atomic saves and removes
Groups == 1..MaxGroups

IsForest(n, p, g) ==
  /\ \A i \in 1..n : p[i] \in 0..(i - 1)
  /\ \A i \in 1..n : p[i] # NoId => g[i] = g[p[i]]

InitGroup ==
  /\ \E n \in 1..MaxForest : \E p \in [1..n -> 0..(n - 1)] :
       \E g \in [1..n -> Groups] :
         /\ IsForest(n, p, g)
         /\ store = [i \in Ids |-> IF i <= n
                                   THEN [NewDoc(p[i]) EXCEPT !.group = g[i]]
                                   ELSE Absent]
         /\ nextId = n + 1
  /\ stack = <<>>
  /\ build = NoBuild
  /\ hooks = <<>>
  /\ last = NoOp
  /\ groupingKey = TRUE

NextGroup ==
  \/ (last.count = 0
      /\ \E root \in {r \in Stored(store) : /\ store[r].parent = NoId
                                            /\ ~IsSet(store[r].lft)} :
           RebuildStart(root, 1))
  \/ RebuildChild
  \/ RebuildUpdateLeaf
  \/ RebuildUpdateParent
  \/ (stack = <<>> /\ last.count < MaxGroupOps
      /\ \E p \in Stored(store) : \E g \in Groups : Save(p, g, "none"))
  \/ (stack = <<>> /\ last.count < MaxGroupOps
      /\ \E n \in Stored(store) : Remove(n))

SpecGroup == InitGroup /\ [][NextGroup]_vars

\* ------- rebuildTree(root, L) for any L >= 0, then atomic saves of new
\* children and removes of nodes without children
NextLeaf ==
  \/ (build.count = 0 /\ \E left \in 0..MaxLeft : RebuildStart(1, left))
  \/ RebuildChild
  \/ RebuildUpdateLeaf
  \/ RebuildUpdateParent
  \/ (build.state = "done" /\ \E p \in Stored(store) : Create(p))
  \/ (build.state = "done"
      /\ \E n \in Stored(store) : ChildrenOf(store, n) = {} /\ Remove(n))

SpecLeaf == Init /\ [][NextLeaf]_vars

\* ------- rebuildTree(root, 1), then atomic saves of new children and saves
\* of documents that are already stored
NextResave ==
  \/ BuildTree
  \/ (build.state = "done" /\ \E p \in Stored(store) : Create(p))
  \/ (build.state = "done" /\ \E n \in Stored(store) : Resave(n))

SpecResave == Init /\ [][NextResave]_vars

\* ------- rebuildTree(root, 1), then one remove whose middleware is followed
\* store call by store call
NextShift ==
  \/ BuildTree
  \/ (build.state = "done" /\ hooks = <<>>
      /\ \E n \in Stored(store) : RemoveStart(n))
  \/ \E i \in 1..Len(hooks) : ReadParent(i)
  \/ \E i \in 1..Len(hooks) : ReadSiblings(i)
  \/ \E i \in 1..Len(hooks) : ShiftLft(i)
  \/ \E i \in 1..Len(hooks) : ShiftRgt(i)
  \/ \E i \in 1..Len(hooks) : Commit(i)

SpecShift == Init /\ [][NextShift]_vars

\* ------- rebuildTree(root, 1), then atomic saves of new children, then a
\* second rebuildTree on any stored node from any left value
NextAgain ==
  \/ BuildTree
  \/ (build.state = "done" /\ build.count = 1
      /\ \E p \in Stored(store) : Create(p))
  \/ (build.state = "done" /\ build.count = 1
      /\ \E root \in Stored(store) : \E left \in 0..MaxLeft :
           RebuildStart(root, left))

SpecAgain == Init /\ [][NextAgain]_vars

\* ---------------------------------------------------------------- C4, C5
\* how many lft or rgt fields of the nodes in S hold the value v
Uses(s, S, v) ==
  Cardinality({n \in S : s[n].lft = v}) + Cardinality({n \in S : s[n].rgt = v})

\* C4: when rebuildTree(root, L) has completed on a tree of N nodes, the 2N
\* lft/rgt values of root's subtree are exactly L .. L+2N-1, each used once.
C4_Consecutive ==
  build.state = "done" =>
    LET sub == SubtreeOf(store, build.root)
        hi == build.left + 2 * Cardinality(sub) - 1
    IN /\ \A n \in sub : /\ store[n].lft \in build.left..hi
                         /\ store[n].rgt \in build.left..hi
       /\ \A v \in build.left..hi : Uses(store, sub, v) = 1

C4_Witness ==
  /\ build.state = "done"
  /\ build.left = 2
  /\ Cardinality(SubtreeOf(store, build.root)) = 4
  /\ \E n \in Stored(store) : Cardinality(ChildrenOf(store, n)) = 2

\* C5: when rebuildTree(root, L) has completed, the store holds the
\* depth-first numbering: root.lft = L, a first child starts at its parent's
\* lft + 1, each next child at its previous sibling's rgt + 1, and every node
\* has rgt = lft + 2 * (number of its descendants) + 1.
DfsNumbered(s, root, left) ==
  /\ s[root].lft = left
  /\ \A n \in SubtreeOf(s, root) :
       LET cs == ChildrenSeq(s, n)
       IN /\ cs # <<>> => s[cs[1]].lft = s[n].lft + 1
          /\ \A i \in 1..(Len(cs) - 1) : s[cs[i + 1]].lft = s[cs[i]].rgt + 1
          /\ s[n].rgt = s[n].lft + 2 * Cardinality(DescendantsByParent(s, n)) + 1

C5_DepthFirst ==
  build.state = "done" => DfsNumbered(store, build.root, build.left)

C5_Witness ==
  /\ build.state = "done"
  /\ build.left = 0
  /\ \E n \in SubtreeOf(store, build.root) :
       /\ Len(ChildrenSeq(store, n)) = 2
       /\ ChildrenOf(store, ChildrenSeq(store, n)[1]) # {}

\* ------------------------------------------------------- interval algebra
HasBounds(s, n) == IsSet(s[n].lft) /\ IsSet(s[n].rgt)

\* a's interval strictly contains b's
Contains(s, a, b) == s[a].lft < s[b].lft /\ s[b].rgt < s[a].rgt

\* the two intervals have no point in common
Disjoint(s, a, b) == s[a].rgt < s[b].lft \/ s[b].rgt < s[a].lft

NestedOrDisjoint(s, S) ==
  \A a \in S : \A b \in S \ {a} :
    Contains(s, a, b) \/ Contains(s, b, a) \/ Disjoint(s, a, b)

SetMax(S) == CHOOSE x \in S : \A y \in S : y <= x

\* ------------------------------------------------------------------- C1
\* C1: after rebuildTree(root, 1) and any sequence of atomic saves of new
\* children, every stored node has lft < rgt, all boundary values are
\* pairwise distinct, any two intervals are strictly nested or disjoint, and
\* A's interval strictly contains B's exactly when A is on B's parent chain.
C1_NestedSet ==
  build.state = "done" =>
    /\ \A n \in Stored(store) : HasBounds(store, n) /\ store[n].lft < store[n].rgt
    /\ \A a \in Stored(store) : \A b \in Stored(store) \ {a} :
         {store[a].lft, store[a].rgt} \cap {store[b].lft, store[b].rgt} = {}
    /\ NestedOrDisjoint(store, Stored(store))
    /\ \A a \in Stored(store) : \A b \in Stored(store) :
         Contains(store, a, b) <=> a \in ParentChain(store, b)

C1_Witness ==
  /\ build.state = "done"
  /\ last.op = "create"
  /\ last.count >= 2
  /\ last.acted
  /\ last.parent # 1
  /\ \E n \in Stored(store) : store[n].lft > last.maxRgt + 2

C8_Queries ==
  build.state = "done" =>
    \A n \in Stored(store) :
      /\ Ancestors(store, n) = ParentChain(store, n)
      /\ Descendants(store, n) = DescendantsByParent(store, n)

C8_Witness ==
  /\ build.state = "done"
  /\ last.op = "create"
  /\ last.acted
  /\ Cardinality(Ancestors(store, last.node)) >= 2
  /\ \E n \in Stored(store) : Cardinality(Descendants(store, n)) >= 3
  /\ \E n \in Stored(store) : store[n].lft > store[last.node].rgt

\* ------------------------------------------------------------------- C2
\* C2: removing a leaf N (first, middle, last or only child) from a built
\* tree closes its gap: of the remaining nodes exactly the lft and rgt values
\* greater than N.rgt decrease by 2, the others are unchanged, the remaining
\* intervals are nested or disjoint and their values are consecutive integers.
C2_RemoveLeaf ==
  (/\ last.op = "remove"
   /\ last.preClean
   /\ ChildrenOf(last.pre, last.node) = {}) =>
    LET pre == last.pre
        N == last.node
        rest == Stored(store)
    IN /\ \A n \in rest :
            /\ store[n].lft = IF pre[n].lft > pre[N].rgt THEN pre[n].lft - 2 ELSE pre[n].lft
            /\ store[n].rgt = IF pre[n].rgt > pre[N].rgt THEN pre[n].rgt - 2 ELSE pre[n].rgt
       /\ NestedOrDisjoint(store, rest)
       /\ \A v \in 1..(2 * Cardinality(rest)) : Uses(store, rest, v) = 1

\* ------------------------------------------------------------------- C7
\* C7: in a built tree, a save of a new leaf followed at once by the remove
\* of that leaf leaves every other node's lft and rgt as before the save.
C7_InsertRemove ==
  (/\ last.op = "remove"
   /\ last.prevOp = "create"
   /\ last.prevNode = last.node
   /\ last.preClean) =>
    /\ Stored(store) = Stored(last.prevPre)
    /\ \A n \in Stored(store) :
         /\ store[n].lft = last.prevPre[n].lft
         /\ store[n].rgt = last.prevPre[n].rgt

C7_Witness ==
  /\ last.op = "remove"
  /\ last.prevOp = "create"
  /\ last.prevNode = last.node
  /\ last.preClean
  /\ last.acted
  /\ last.parent # 1
  /\ \E n \in Stored(store) : last.pre[n].lft = store[n].lft + 2
  /\ \E n \in Stored(store) : last.pre[n].rgt = last.prevPre[n].rgt + 2

\* ------------------------------------------------------------------- C9
\* the node has no parent, or its parent lacks lft or rgt, or one of its
\* siblings lacks lft or rgt
Degraded(s, n, p) ==
  \/ p = NoId
  \/ ~HasBounds(s, p)
  \/ \E c \in ChildrenOf(s, p) \ {n} : ~HasBounds(s, c)

\* C9: in a degraded state the save middleware leaves the new node's lft and
\* rgt unset, the remove middleware shifts nothing, and no stored node's lft
\* or rgt changes.
C9_DegradedNoOp ==
  (last.op \in {"create", "remove"} /\ Degraded(last.pre, last.node, last.parent)) =>
    /\ ~last.acted
    /\ last.op = "create" =>
         /\ store[last.node].exists
         /\ store[last.node].lft = Unset
         /\ store[last.node].rgt = Unset
    /\ \A n \in Stored(last.pre) \ {last.node} :
         /\ store[n].lft = last.pre[n].lft
         /\ store[n].rgt = last.pre[n].rgt

C9_Witness ==
  /\ last.op = "create"
  /\ last.parent # NoId
  /\ Truthy(last.pre[last.parent].lft)
  /\ Truthy(last.pre[last.parent].rgt)
  /\ \E c \in ChildrenOf(last.pre, last.parent) : ~HasBounds(last.pre, c)
  /\ \E c \in ChildrenOf(last.pre, last.parent) : HasBounds(last.pre, c)
  /\ \E n \in Stored(last.pre) : last.pre[n].lft > last.pre[last.parent].lft

\* ------------------------------------------------------------------- C3
\* C3: whatever the interleaving of the steps of two saves of new children
\* of the same parent in a built tree, at the end the two new nodes have
\* distinct, non-overlapping intervals and every pair of intervals is nested
\* or disjoint.
C3_Serialized ==
  (/\ Len(hooks) = 2
   /\ \A i \in 1..2 : hooks[i].kind = "save" /\ hooks[i].pc = "done"
   /\ hooks[1].parent = hooks[2].parent) =>
    /\ HasBounds(store, hooks[1].id)
    /\ HasBounds(store, hooks[2].id)
    /\ Disjoint(store, hooks[1].id, hooks[2].id)
    /\ NestedOrDisjoint(store, Stored(store))

\* ------------------------------------------------------------------ C10
\* C10: in every state a reader can observe while one middleware runs in a
\* built tree, also between its lft pass and its rgt pass, every stored node
\* with boundaries has lft < rgt.
C10_LftBelowRgt ==
  (build.state = "done" /\ Len(hooks) = 1) =>
    \A n \in Stored(store) : HasBounds(store, n) => store[n].lft < store[n].rgt

\* ------------------------------------------------------------- C11, C12
\* C11: a store failure in the middle of a boundary update aborts the rest of
\* the middleware: after a failed lft range update the rgt range update is
\* not issued and a new node gets no lft/rgt; after a failed sibling read no
\* range update is issued.
C11_Abort ==
  (last.op \in {"create", "remove"} /\ last.fail \in last.issued) =>
    /\ last.fail = "lft" =>
         /\ "rgt" \notin last.issued
         /\ last.op = "create" =>
              ~IsSet(last.lft) /\ ~IsSet(last.rgt)
    /\ last.fail = "siblings" =>
         "lft" \notin last.issued /\ "rgt" \notin last.issued

\* C12: the middleware reports failure, and the record is not created or
\* deleted, whenever one of its store calls fails; it reports success without
\* boundary work only when the prerequisite boundaries are absent.
C12_ReportFailure ==
  last.op \in {"create", "remove"} =>
    /\ last.fail \in last.issued =>
         /\ last.outcome = "error"
         /\ store[last.node].exists = last.pre[last.node].exists
    /\ (last.fail \notin last.issued /\ last.outcome = "ok" /\ ~last.acted) =>
         Degraded(last.pre, last.node, last.parent)

\* ------------------------------------------------------------------ C13
\* C13: rebuildTree(root, L) fails with a not-found error and writes nothing
\* when the collection holds no document with root's id.
C13_NotFound ==
  (build.state \in {"done", "failed"} /\ ~build.pre[build.root].exists) =>
    /\ build.state = "failed"
    /\ store = build.pre

\* ------------------------------------------------------------------ C19
\* C19: rebuildTree(root, L) completes after finitely many store calls
\* whatever the parent references are.  The children an activation finds
\* depend only on the parent references, which rebuildTree never writes, so
\* an activation nested inside an activation for the same node repeats that
\* nesting without end: completing requires that this never happens.
C19_Terminates ==
  \A i, j \in 1..Len(stack) : i # j => stack[i].id # stack[j].id

\* ------------------------------------------------------------- C14, C15
\* C14: with the groupingKey option, ancestors, selfAndAncestors, descendants
\* and selfAndDescendants of a node return only nodes whose grouping value is
\* the node's, also when nodes of another group have lft/rgt that satisfy
\* the interval condition.
C14_Scoped ==
  groupingKey =>
    \A n \in Stored(store) :
      HasBounds(store, n) =>
        \A m \in Ancestors(store, n) \cup SelfAndAncestors(store, n)
                 \cup Descendants(store, n) \cup SelfAndDescendants(store, n) :
          store[m].group = store[n].group

\* C15: with the groupingKey option, the save or remove middleware of a node
\* whose grouping value is k leaves lft and rgt of every node with another
\* grouping value as they were.
C15_OtherGroups ==
  (groupingKey /\ last.op \in {"create", "remove"}) =>
    \A n \in Stored(last.pre) :
      last.pre[n].group # last.group =>
        /\ store[n].lft = last.pre[n].lft
        /\ store[n].rgt = last.pre[n].rgt

C15_Witness ==
  /\ groupingKey
  /\ last.op \in {"create", "remove"}
  /\ last.acted
  /\ \E n \in Stored(last.pre) :
       /\ last.pre[n].group # last.group
       /\ HasBounds(last.pre, n)
       /\ last.pre[n].lft > last.maxRgt
  /\ \E m \in Stored(last.pre) \ {last.node} :
       /\ last.pre[m].group = last.group
       /\ store[m].rgt # last.pre[m].rgt

\* ------------------------------------------------------------------ C16
\* C16: after rebuildTree(root, L) for any L >= 0 and any sequence of atomic
\* saves of new nodes and removes of leaves, every node with boundaries set
\* is a leaf for isLeaf exactly when it has no children.
C16_LeafLaw ==
  build.state = "done" =>
    \A n \in Stored(store) :
      HasBounds(store, n) => (IsLeaf(store, n) <=> ChildrenOf(store, n) = {})

\* ------------------------------------------------------------------ C17
\* C17: after rebuildTree(root, L) on documents that were saved before any
\* boundaries existed, and after any sequence of saves of new nodes, the
\* stored lvl of every node is its depth below root: the number of strict
\* ancestors that level() counts.
C17_LvlIsDepth ==
  build.state = "done" =>
    \A n \in SubtreeOf(store, build.root) :
      HasBounds(store, n) => store[n].lvl = Level(store, n)

\* ------------------------------------------------------------------ C18
\* C18: rebuildTree(root, L) gives every node of the subtree the same lft and
\* rgt whatever lft/rgt were stored before: a later run with the same root
\* and L on the same parent references reproduces the boundaries of the
\* first run.
C18_Idempotent ==
  (/\ build.state = "done"
   /\ build.count >= 2
   /\ build.first.root = build.root
   /\ build.first.left = build.left) =>
    \A n \in SubtreeOf(store, build.root) :
      /\ store[n].lft = build.first.result[n].lft
      /\ store[n].rgt = build.first.result[n].rgt

C18_Witness ==
  /\ build.state = "done"
  /\ build.count >= 2
  /\ build.first.root = build.root
  /\ build.first.left = build.left
  /\ Cardinality(SubtreeOf(store, build.root)) >= 3
  /\ \E n \in SubtreeOf(store, build.root) : ChildrenOf(store, n) # {}
  /\ \A n \in SubtreeOf(store, build.root) : HasBounds(build.pre, n)

\* ------------------------------------------------------------------ C20
\* C20: saving again a node that is stored with boundaries issues no range
\* update and leaves the lft and rgt of that node and of every other node as
\* they were.
C20_Once ==
  (last.op = "resave" /\ HasBounds(last.pre, last.node)) =>
    /\ "lft" \notin last.issued
    /\ "rgt" \notin last.issued
    /\ \A n \in Stored(last.pre) :
         /\ store[n].lft = last.pre[n].lft
         /\ store[n].rgt = last.pre[n].rgt

\* ------------------------------------------------------------------ C21
\* the two intervals have a point in common and neither lies within the other
PartialOverlap(s, a, b) ==
  /\ ~Disjoint(s, a, b)
  /\ ~(s[a].lft <= s[b].lft /\ s[b].rgt <= s[a].rgt)
  /\ ~(s[b].lft <= s[a].lft /\ s[a].rgt <= s[b].rgt)

\* C21: after the removal of a node that has descendants from a built tree,
\* the remaining nodes with boundaries (the former descendants included) have
\* lft < rgt each and intervals that, two by two, are nested or disjoint and
\* never overlap partially.
C21_NoPartialOverlap ==
  (/\ last.op = "remove"
   /\ last.preClean
   /\ ChildrenOf(last.pre, last.node) # {}) =>
    LET rest == {n \in Stored(store) : HasBounds(store, n)}
    IN /\ \A n \in rest : store[n].lft < store[n].rgt
       /\ \A a \in rest : \A b \in rest \ {a} : ~PartialOverlap(store, a, b)

\* ------------------------------------------------------------------ C22
\* the only middleware that ran since rebuildTree(root, 1) is a remove that
\* has issued both range updates and has not deleted its document yet
RemoveShifted ==
  /\ build.state = "done"
  /\ Len(hooks) = 1
  /\ hooks[1].kind = "remove"
  /\ hooks[1].pc = "commit"
  /\ hooks[1].acted

\* C22 as stated: in the remove middleware of a node of a built tree the
\* node's own lft and rgt are not matched by the two range updates, which
\* leave its stored boundaries as they were.
C22_SelfUntouched ==
  RemoveShifted =>
    /\ store[hooks[1].id].lft = hooks[1].was.lft
    /\ store[hooks[1].id].rgt = hooks[1].was.rgt

\* C22 amended: the range updates do not leave the removed node out.  Its
\* stored lft and rgt both drop by 2 when it is the last or the only child
\* of its parent (no sibling lies to its right, so maxRgt is below its lft),
\* and stay as they were when a sibling lies to its right; the document is
\* deleted afterwards in both cases.
C22_SelfShifted ==
  RemoveShifted =>
    LET h == hooks[1]
        sibs == ChildrenOf(store, h.parent) \ {h.id}
    IN IF \A c \in sibs : store[c].rgt < h.was.lft
       THEN /\ h.maxRgt < h.was.lft
            /\ store[h.id].lft = h.was.lft - 2
            /\ store[h.id].rgt = h.was.rgt - 2
       ELSE /\ h.maxRgt > h.was.rgt
            /\ store[h.id].lft = h.was.lft
            /\ store[h.id].rgt = h.was.rgt

C22_Witness ==
  /\ RemoveShifted
  /\ ChildrenOf(store, hooks[1].parent) \ {hooks[1].id} # {}
  /\ \A c \in ChildrenOf(store, hooks[1].parent) \ {hooks[1].id} :
       store[c].rgt < hooks[1].was.lft
  /\ store[hooks[1].id].lft = hooks[1].was.lft - 2

\* ------------------------------------------------------------------ C23
\* C23: whenever the parent has lft and rgt set, whatever non-negative value
\* lft has (0 for a root numbered by rebuildTree(root, 0)), and every sibling
\* has both set, the save middleware gives the new node lft = maxRgt + 1,
\* rgt = maxRgt + 2 and lvl = parent.lvl + 1.
C23_Assigned ==
  (/\ last.op = "create"
   /\ last.parent # NoId
   /\ HasBounds(last.pre, last.parent)
   /\ \A c \in ChildrenOf(last.pre, last.parent) : HasBounds(last.pre, c)) =>
    LET pre == last.pre
        kids == ChildrenOf(pre, last.parent)
        m == IF kids = {} THEN pre[last.parent].lft
             ELSE SetMax({pre[c].rgt : c \in kids})
    IN /\ store[last.node].lft = m + 1
       /\ store[last.node].rgt = m + 2
       /\ store[last.node].lvl = pre[last.parent].lvl + 1

C25_Frame ==
  (build.state = "done" /\ last.op = "rebuild") =>
    /\ Stored(store) = Stored(build.pre)
    /\ \A n \in Stored(store) :
         /\ store[n].parent = build.pre[n].parent
         /\ store[n].lvl = build.pre[n].lvl
         /\ store[n].group = build.pre[n].group
         /\ n \notin SubtreeOf(build.pre, build.root) =>
              /\ store[n].lft = build.pre[n].lft
              /\ store[n].rgt = build.pre[n].rgt

C25_Witness ==
  /\ build.state = "done"
  /\ last.op = "rebuild"
  /\ build.count = 2
  /\ build.root # 1
  /\ ChildrenOf(store, build.root) # {}
  /\ \E n \in Stored(store) \ SubtreeOf(store, build.root) :
       HasBounds(build.pre, n) /\ n # 1
  /\ \E n \in SubtreeOf(store, build.root) :
       store[n].lft # build.pre[n].lft /\ store[n].lvl >= 2

\* ------------------------------------------------------------------ C26
\* C26: while some child of P has lft/rgt unset, a save of a new child of P
\* leaves the new node's boundaries unset and shifts nothing; once
\* rebuildTree has completed on P or on an ancestor of P, all children of P
\* have boundaries and the next save of a new child of P assigns boundaries.
C26_Absorbing ==
  (last.op = "create" /\ last.parent # NoId) =>
    LET pre == last.pre
        P == last.parent
    IN /\ (\E c \in ChildrenOf(pre, P) : ~HasBounds(pre, c)) =>
            /\ ~HasBounds(store, last.node)
            /\ \A n \in Stored(pre) :
                 /\ store[n].lft = pre[n].lft
                 /\ store[n].rgt = pre[n].rgt
       /\ (/\ build.state = "done"
           /\ last.prevOp = "rebuild"
           /\ build.root \in {P} \cup ParentChain(pre, P)) =>
            /\ \A c \in ChildrenOf(pre, P) : HasBounds(pre, c)
            /\ HasBounds(store, last.node)

====
